---- MODULE Spec2Model ----
(***************************************************************************)
(* Conversation bookkeeping and streaming consumption of the OpenAI SDK    *)
(* example scripts.                                                        *)
(*                                                                         *)
(*   chat_with_context  (openai_sdk_complete_guide.py 540-554): the        *)
(*     closure over conversation_history; one call appends the user turn,  *)
(*     sends the whole list to client.chat.completions.create and, when    *)
(*     that returns, appends the assistant turn.  There is no try/except   *)
(*     and no input validation in it.                                      *)
(*   streaming_example  (openai_sdk_complete_guide.py 565-585): opens a    *)
(*     stream on a literal one-message list, prints every chunk whose      *)
(*     delta.content is not None, catches every exception.                 *)
(*                                                                         *)
(*   OpenAISDKGuide.run_all_examples  (same file, 502-528) with the        *)
(*     sixteen methods it calls, file_operations_example among them.       *)
(*   run_all_examples  (quick_start_examples.py 206-228): eight calls      *)
(*     inside one try block.                                               *)
(*                                                                         *)
(* The remote endpoint is opaque: its answer to a request is a             *)
(* nondeterministic choice between a reply text and a raised error.        *)
(***************************************************************************)
EXTENDS Integers, Sequences, FiniteSets, TLC

(* ------------------------------ bounds --------------------------------- *)
MaxCalls == 3        \* chat_with_context calls begun in one behaviour
MaxChunks == 5       \* chunks the endpoint puts on one stream
MaxOverlapCalls == 2 \* calls begun in one behaviour with overlapping calls
MaxContextCalls == 2 \* calls begun over all invocations of the context function

Callers == {1, 2}                          \* call sites of chat_with_context
Texts == {"", "X", "Hi"}                   \* user_message arguments
Replies == {"r1", "r2"}                    \* response.choices[0].message.content
Errors == {"APITimeoutError", "APIError"}  \* raised by completions.create
Fragments == {"a", "b"}                    \* chunk.choices[0].delta.content
Instances == {1, 2}                        \* invocations of create_conversation_context

VARIABLES conversation_history, calls, ncalls, requests, log, stream,
          contexts, guide, quick

vars == <<conversation_history, calls, ncalls, requests, log, stream,
          contexts, guide, quick>>

(* ------------------------------ messages ------------------------------- *)
UserMessage(text) == [role |-> "user", content |-> text]

AssistantMessage(text) == [role |-> "assistant", content |-> text]

IsPrefix(s, t) == Len(s) <= Len(t) /\ SubSeq(t, 1, Len(s)) = s

(* -------------------- chat_with_context, line by line ------------------ *)
\* a variant that drops a user turn equal to the last entry
AppendUser_Dedup(h, text) ==
    IF h # <<>> /\ h[Len(h)] = UserMessage(text) THEN h
    ELSE Append(h, UserMessage(text))

\* line 543: conversation_history.append({"role": "user", ...})
AppendUser(h, text) == Append(h, UserMessage(text))

\* a variant that sends the newest message only
RequestMessages_LastOnly(h) == <<h[Len(h)]>>

\* line 547: messages=conversation_history (the list itself, not a slice)
RequestMessages(h) == h

\* a variant that stores the reply over the last entry
AppendAssistant_Overwrite(h, reply) ==
    [h EXCEPT ![Len(h)] = AssistantMessage(reply)]

\* a variant that inserts the reply before the last entry
AppendAssistant_BeforeLast(h, reply) ==
    SubSeq(h, 1, Len(h) - 1) \o <<AssistantMessage(reply), h[Len(h)]>>

\* a variant that inserts the reply at the front of the list
AppendAssistant_Front(h, reply) == <<AssistantMessage(reply)>> \o h

\* line 552: conversation_history.append({"role": "assistant", ...})
AppendAssistant(h, reply) == Append(h, AssistantMessage(reply))

\* a variant that pops the user turn when create raises
HistoryAfterError_Rollback(h) == SubSeq(h, 1, Len(h) - 1)

\* lines 545-549: an exception of create leaves the list as it is (no
\* rollback of the user turn: there is no except or finally clause)
HistoryAfterError(h) == h

\* a variant that sends the request again after an error
RequestsAfterError_Retry(reqs, r) == Append(reqs, r)

\* lines 545-549: create is called once; a raised error is not retried
RequestsAfterError(reqs, r) == reqs

\* a variant that catches the error and returns an empty reply
ErrorResult_Swallow(err) == [outcome |-> "returned", value |-> ""]

\* lines 545-554: the exception propagates out of chat_with_context
ErrorResult(err) == [outcome |-> "raised", value |-> err]

\* line 554: return assistant_message
ReturnResult(reply) == [outcome |-> "returned", value |-> reply]

IdleCall == [pc |-> "idle", id |-> 0, user_message |-> "", before |-> <<>>,
             overlap |-> FALSE]

AllIdle == \A t \in Callers : calls[t].pc = "idle"

RequestsOf(id) == {i \in 1..Len(requests) : requests[i].call = id}

(* ------------------------------ streaming ------------------------------ *)
Chunk(text) == [isNone |-> FALSE, content |-> text]

NoneChunk == [isNone |-> TRUE, content |-> ""]

Chunks == {Chunk(f) : f \in Fragments} \cup {NoneChunk}

ChunkSeqs == UNION {[1..n -> Chunks] : n \in 0..MaxChunks}

\* line 574: messages=[{"role": "user", "content": "Write a short poem ..."}]
StreamMessages == <<UserMessage("Write a short poem about coding")>>

\* a variant that writes the newest fragment before the earlier output
PrintChunk_Prepend(out, chunk) ==
    IF chunk.isNone THEN out ELSE chunk.content \o out

\* lines 580-581: print(delta.content, end="") unless it is None
PrintChunk(out, chunk) == IF chunk.isNone THEN out ELSE out \o chunk.content

IdleStream == [pc |-> "idle", messages |-> <<>>, pending |-> <<>>,
               delivered |-> <<>>, printed |-> "", exchange |-> "none",
               caught |-> FALSE]

(* --------------------------- example runners --------------------------- *)
\* lines 510-525: the methods run_all_examples calls, in its order
GuideExamples ==
    <<"text_completions_example", "chat_completions_example",
      "chat_with_functions_example", "embeddings_example",
      "batch_embeddings_example", "image_generation_example",
      "image_variation_example", "speech_to_text_example",
      "text_to_speech_example", "file_operations_example",
      "assistants_example", "fine_tuning_example", "moderation_example",
      "models_example", "responses_api_example", "usage_example">>

\* the calls of self.client.* each method makes when none of them raises;
\* four methods only print
RemoteCallsOf(e) ==
    CASE e \in {"image_variation_example", "speech_to_text_example",
                "fine_tuning_example", "usage_example"} -> 0
      [] e = "file_operations_example" -> 4     \* lines 294, 302, 306, 311
      [] e = "assistants_example" -> 5          \* lines 333, 343, 347, 354, 363
      [] e = "models_example" -> 2              \* lines 440, 450
      [] OTHER -> 1

\* lines 294-311: the calls of file_operations_example, in order
FileStages == <<"upload", "list", "retrieve", "delete">>

\* a variant in which chat_completions_example has no try block
Catches_ChatUnguarded(e) == e # "chat_completions_example"

\* every call of self.client.* in the sixteen methods stands inside a
\* try block with an "except Exception" clause (lines 42-57, 70-88, ...,
\* 469-479)
Catches(e) == TRUE

\* a variant that removes the file at the end of the try block only
LocalAfterFinally_TryOnly(local, raised) ==
    IF raised THEN local ELSE "absent"

\* lines 316-319: finally: if os.path.exists(...): os.remove(...)
LocalAfterFinally(local, raised) == "absent"

\* lines 294-311: what a returned call of file_operations_example does to
\* the file held by the service
RemoteAfterStage(remote, stage) ==
    CASE stage = "upload" -> "uploaded"
      [] stage = "delete" -> "deleted"
      [] OTHER -> remote

IdleGuide == [pc |-> "idle", idx |-> 0, step |-> 0, invoked |-> <<>>,
              caught |-> {}, local |-> "absent", remote |-> "none",
              failed_at |-> "none"]

\* a method is entered; file_operations_example first writes sample_file.txt
\* (lines 287-289)
EnterExample(g, k) ==
    [g EXCEPT !.idx = k, !.step = 0,
              !.invoked = Append(g.invoked, GuideExamples[k]),
              !.local = IF GuideExamples[k] = "file_operations_example"
                        THEN "present" ELSE g.local]

\* a method returns, after its except and finally clauses; run_all_examples
\* goes on to the next call, or to its last two prints (lines 527-528)
LeaveExample(g, raised) ==
    LET h == IF GuideExamples[g.idx] = "file_operations_example"
             THEN [g EXCEPT !.local = LocalAfterFinally(g.local, raised)]
             ELSE g
    IN IF g.idx = Len(GuideExamples) THEN [h EXCEPT !.pc = "completed"]
       ELSE EnterExample(h, g.idx + 1)

\* quick_start_examples.py lines 212-221: the calls inside the try block of
\* run_all_examples (lines 216-217 are commented out)
QuickExamples ==
    <<"example_1_simple_chat", "example_2_conversation",
      "example_3_code_generation", "example_4_embeddings",
      "example_7_streaming", "example_8_function_calling",
      "example_9_moderation", "example_10_models_info">>

\* the client calls of each function; example_9_moderation calls once per
\* text of its two-element list (lines 177-183)
QuickCallsOf(e) == IF e = "example_9_moderation" THEN 2 ELSE 1

IdleQuick == [pc |-> "idle", idx |-> 0, step |-> 0, invoked |-> <<>>,
              returned |-> <<>>, raised_at |-> "none",
              success_printed |-> FALSE, error_printed |-> FALSE,
              streaming |-> FALSE, pending |-> <<>>, printed |-> ""]

\* a function of the list is called; its locals are fresh
EnterQuick(q, k) ==
    [q EXCEPT !.idx = k, !.step = 0,
              !.invoked = Append(q.invoked, QuickExamples[k]),
              !.streaming = FALSE, !.pending = <<>>, !.printed = ""]

\* a variant with the try block around each call instead of the whole list
QuickOnRaise_Continue(q, e) ==
    LET r == [q EXCEPT !.raised_at = e, !.error_printed = TRUE]
    IN IF q.idx = Len(QuickExamples) THEN [r EXCEPT !.pc = "stopped"]
       ELSE EnterQuick(r, q.idx + 1)

\* lines 211, 226-228: one try block holds all the calls; the first
\* exception leaves it, the except clause prints and the function returns
QuickOnRaise(q, e) ==
    [q EXCEPT !.pc = "stopped", !.raised_at = e, !.error_printed = TRUE]

\* a function returned: the next one is called, or lines 223-224 print
QuickOnReturn(q) ==
    LET r == [q EXCEPT !.returned = Append(q.returned, QuickExamples[q.idx])]
    IN IF q.idx = Len(QuickExamples)
       THEN [r EXCEPT !.pc = "completed", !.success_printed = TRUE]
       ELSE EnterQuick(r, q.idx + 1)

(* ------------------ invocations of the context function ---------------- *)
UnboundContext == [pc |-> "unbound", history |-> <<>>]

\* a variant in which the list is one module-level object
BindHistory_Shared(ctxs, i, h) ==
    [j \in DOMAIN ctxs |-> [ctxs[j] EXCEPT !.history = h]]

\* line 540: conversation_history is a local of the invocation, and
\* chat_with_context closes over that one list
BindHistory(ctxs, i, h) == [ctxs EXCEPT ![i].history = h]

ContextCalls ==
    Cardinality({<<i, k>> \in Instances \X (1..(2 * MaxContextCalls)) :
                   /\ k <= Len(contexts[i].history)
                   /\ contexts[i].history[k].role = "user"})

(* ------------------------------- Init ---------------------------------- *)
\* line 540: conversation_history = []
Init ==
    /\ conversation_history = <<>>
    /\ calls = [t \in Callers |-> IdleCall]
    /\ ncalls = 0
    /\ requests = <<>>
    /\ log = <<>>
    /\ stream = IdleStream
    /\ contexts = [i \in Instances |-> UnboundContext]
    /\ guide = IdleGuide
    /\ quick = IdleQuick

(* ------------------------------ actions -------------------------------- *)
\* line 542-543: chat_with_context(user_message) is entered and appends the
\* user turn.  No check of user_message precedes the append.
AppendUserTurn(t, text) ==
    /\ calls[t].pc = "idle"
    /\ ncalls < MaxCalls
    /\ ncalls' = ncalls + 1
    /\ calls' = [calls EXCEPT ![t] = [pc |-> "appended", id |-> ncalls + 1,
                                      user_message |-> text,
                                      before |-> conversation_history,
                                      overlap |-> ~AllIdle]]
    /\ conversation_history' = AppendUser(conversation_history, text)
    /\ UNCHANGED <<requests, log, stream,
                 contexts, guide, quick>>

\* lines 545-549: the request is built from the list and sent
Dispatch(t) ==
    /\ calls[t].pc = "appended"
    /\ requests' = Append(requests,
                          [call |-> calls[t].id,
                           messages |-> RequestMessages(conversation_history)])
    /\ calls' = [calls EXCEPT ![t].pc = "awaiting"]
    /\ UNCHANGED <<conversation_history, ncalls, log, stream,
                 contexts, guide, quick>>

Finished(t, h, remote, result) ==
    Append(log, [id |-> calls[t].id, user_message |-> calls[t].user_message,
                 remote |-> remote, outcome |-> result.outcome, value |-> result.value,
                 before |-> calls[t].before, after |-> h,
                 overlap |-> calls[t].overlap])

\* lines 551-554: create returned; the assistant turn is appended and returned
Succeed(t, reply) ==
    /\ calls[t].pc = "awaiting"
    /\ conversation_history' = AppendAssistant(conversation_history, reply)
    /\ log' = Finished(t, conversation_history', "ok", ReturnResult(reply))
    /\ calls' = [calls EXCEPT ![t] = IdleCall]
    /\ UNCHANGED <<ncalls, requests, stream,
                 contexts, guide, quick>>

\* lines 545-549: create raised; nothing in chat_with_context catches it
Fail(t, err) ==
    /\ calls[t].pc = "awaiting"
    /\ conversation_history' = HistoryAfterError(conversation_history)
    /\ requests' = RequestsAfterError(requests, requests[Len(requests)])
    /\ log' = Finished(t, conversation_history', "error", ErrorResult(err))
    /\ calls' = [calls EXCEPT ![t] = IdleCall]
    /\ UNCHANGED <<ncalls, stream,
                 contexts, guide, quick>>

\* One thread of control: a call starts only when no other call is running.
SendStart(t, text) == AllIdle /\ AppendUserTurn(t, text)

\* lines 572-578: the stream is opened on the literal message list
StreamCreate(chunks) ==
    /\ stream.pc = "idle"
    /\ stream' = [pc |-> "iterating", messages |-> StreamMessages,
                  pending |-> chunks, delivered |-> <<>>, printed |-> "",
                  exchange |-> "open", caught |-> FALSE]
    /\ UNCHANGED <<conversation_history, calls, ncalls, requests, log,
                 contexts, guide, quick>>

\* lines 572-576, 584-585: create itself raises; the error is printed
StreamCreateFails ==
    /\ stream.pc = "idle"
    /\ stream' = [IdleStream EXCEPT !.pc = "error", !.messages = StreamMessages,
                                    !.caught = TRUE]
    /\ UNCHANGED <<conversation_history, calls, ncalls, requests, log,
                 contexts, guide, quick>>

\* lines 579-581: one iteration of the for loop
StreamIterate ==
    /\ stream.pc = "iterating"
    /\ stream.pending # <<>>
    /\ stream' = [stream EXCEPT
                    !.pending = Tail(stream.pending),
                    !.delivered = Append(stream.delivered, Head(stream.pending)),
                    !.printed = PrintChunk(stream.printed, Head(stream.pending))]
    /\ UNCHANGED <<conversation_history, calls, ncalls, requests, log,
                 contexts, guide, quick>>

\* lines 579, 582: the iterator is exhausted, the body has been read to its end
StreamEnd ==
    /\ stream.pc = "iterating"
    /\ stream.pending = <<>>
    /\ stream' = [stream EXCEPT !.pc = "done", !.exchange = "closed"]
    /\ UNCHANGED <<conversation_history, calls, ncalls, requests, log,
                 contexts, guide, quick>>

\* lines 579-585: the iteration raises before the end of the stream; the
\* except clause prints the error.  The function never calls stream.close()
\* and uses no with block: whether the connection is released is left to the
\* SDK and the runtime.
StreamInterrupt(ex) ==
    /\ stream.pc = "iterating"
    /\ stream' = [stream EXCEPT !.pc = "error", !.exchange = ex, !.caught = TRUE]
    /\ UNCHANGED <<conversation_history, calls, ncalls, requests, log,
                 contexts, guide, quick>>

\* lines 534-540: create_conversation_context is entered and binds its list
ContextCreate(i) ==
    /\ contexts[i].pc = "unbound"
    /\ contexts' = [BindHistory(contexts, i, <<>>) EXCEPT ![i].pc = "idle"]
    /\ UNCHANGED <<conversation_history, calls, ncalls, requests, log, stream,
                   guide, quick>>

\* lines 542-549 on the list of invocation i
ContextSend(i, text) ==
    /\ contexts[i].pc = "idle"
    /\ ContextCalls < MaxContextCalls
    /\ contexts' = [BindHistory(contexts, i,
                                AppendUser(contexts[i].history, text))
                      EXCEPT ![i].pc = "awaiting"]
    /\ UNCHANGED <<conversation_history, calls, ncalls, requests, log, stream,
                   guide, quick>>

\* lines 551-554 on the list of invocation i
ContextSucceed(i, reply) ==
    /\ contexts[i].pc = "awaiting"
    /\ contexts' = [BindHistory(contexts, i,
                                AppendAssistant(contexts[i].history, reply))
                      EXCEPT ![i].pc = "idle"]
    /\ UNCHANGED <<conversation_history, calls, ncalls, requests, log, stream,
                   guide, quick>>

\* lines 545-549 raise in invocation i
ContextFail(i, err) ==
    /\ contexts[i].pc = "awaiting"
    /\ contexts' = [BindHistory(contexts, i,
                                HistoryAfterError(contexts[i].history))
                      EXCEPT ![i].pc = "idle"]
    /\ UNCHANGED <<conversation_history, calls, ncalls, requests, log, stream,
                   guide, quick>>

\* lines 502-510: run_all_examples prints its header and calls the first method
GuideStart ==
    /\ guide.pc = "idle"
    /\ guide' = EnterExample([guide EXCEPT !.pc = "running"], 1)
    /\ UNCHANGED <<conversation_history, calls, ncalls, requests, log, stream,
                   contexts, quick>>

\* the next call of self.client.* in the running method returns
GuideCallReturns ==
    /\ guide.pc = "running"
    /\ guide.step < RemoteCallsOf(GuideExamples[guide.idx])
    /\ guide' = [guide EXCEPT
                   !.step = guide.step + 1,
                   !.remote =
                     IF GuideExamples[guide.idx] = "file_operations_example"
                     THEN RemoteAfterStage(guide.remote,
                                           FileStages[guide.step + 1])
                     ELSE guide.remote]
    /\ UNCHANGED <<conversation_history, calls, ncalls, requests, log, stream,
                   contexts, quick>>

\* the next call of self.client.* in the running method raises: the except
\* clause of the method prints the error and the method returns
GuideCallRaises ==
    /\ guide.pc = "running"
    /\ guide.step < RemoteCallsOf(GuideExamples[guide.idx])
    /\ LET e == GuideExamples[guide.idx]
           g == [guide EXCEPT
                   !.caught = guide.caught \cup {e},
                   !.failed_at = IF e = "file_operations_example"
                                 THEN FileStages[guide.step + 1]
                                 ELSE guide.failed_at]
       IN guide' = IF Catches(e) THEN LeaveExample(g, TRUE)
                   ELSE [guide EXCEPT !.pc = "escaped"]
    /\ UNCHANGED <<conversation_history, calls, ncalls, requests, log, stream,
                   contexts, quick>>

\* the running method has made all its calls and returns
GuideExampleReturns ==
    /\ guide.pc = "running"
    /\ guide.step = RemoteCallsOf(GuideExamples[guide.idx])
    /\ guide' = LeaveExample(guide, FALSE)
    /\ UNCHANGED <<conversation_history, calls, ncalls, requests, log, stream,
                   contexts, quick>>

\* quick_start_examples.py lines 206-212
QuickStart ==
    /\ quick.pc = "idle"
    /\ quick' = EnterQuick([quick EXCEPT !.pc = "running"], 1)
    /\ UNCHANGED <<conversation_history, calls, ncalls, requests, log, stream,
                   contexts, guide>>

\* a client call of the running function returns (not the streaming one)
QuickCallReturns ==
    /\ quick.pc = "running"
    /\ QuickExamples[quick.idx] # "example_7_streaming"
    /\ quick.step < QuickCallsOf(QuickExamples[quick.idx])
    /\ quick' = [quick EXCEPT !.step = quick.step + 1]
    /\ UNCHANGED <<conversation_history, calls, ncalls, requests, log, stream,
                   contexts, guide>>

\* quick_start_examples.py lines 117-125: example_7_streaming opens its stream
QuickStreamOpens(chunks) ==
    /\ quick.pc = "running"
    /\ QuickExamples[quick.idx] = "example_7_streaming"
    /\ quick.step = 0
    /\ quick' = [quick EXCEPT !.step = 1, !.streaming = TRUE,
                              !.pending = chunks]
    /\ UNCHANGED <<conversation_history, calls, ncalls, requests, log, stream,
                   contexts, guide>>

\* quick_start_examples.py lines 126-128: one iteration of the for loop
QuickStreamIterate ==
    /\ quick.pc = "running"
    /\ quick.streaming
    /\ quick.pending # <<>>
    /\ quick' = [quick EXCEPT
                   !.pending = Tail(quick.pending),
                   !.printed = PrintChunk(quick.printed, Head(quick.pending))]
    /\ UNCHANGED <<conversation_history, calls, ncalls, requests, log, stream,
                   contexts, guide>>

\* a client call of the running function raises, or the stream does while
\* it is iterated; no function of the list has a try block of its own
QuickRaises ==
    /\ quick.pc = "running"
    /\ \/ quick.step < QuickCallsOf(QuickExamples[quick.idx])
       \/ quick.streaming /\ quick.pending # <<>>
    /\ quick' = QuickOnRaise(quick, QuickExamples[quick.idx])
    /\ UNCHANGED <<conversation_history, calls, ncalls, requests, log, stream,
                   contexts, guide>>

\* the running function has made its calls (and read its stream to the end)
QuickExampleReturns ==
    /\ quick.pc = "running"
    /\ quick.step = QuickCallsOf(QuickExamples[quick.idx])
    /\ quick.pending = <<>>
    /\ quick' = QuickOnReturn(quick)
    /\ UNCHANGED <<conversation_history, calls, ncalls, requests, log, stream,
                   contexts, guide>>

Next ==
    \/ \E t \in Callers, text \in Texts : SendStart(t, text)
    \/ \E t \in Callers : Dispatch(t)
    \/ \E t \in Callers, reply \in Replies : Succeed(t, reply)
    \/ \E t \in Callers, err \in Errors : Fail(t, err)

\* create_conversation_context: calls of chat_with_context, one at a time
Spec == Init /\ [][Next]_vars

\* lines 542-554 hold no lock: when chat_with_context is called from several
\* threads, a call may be entered while another one waits in create
OverlapStart(t, text) == ncalls < MaxOverlapCalls /\ AppendUserTurn(t, text)

NextOverlap ==
    \/ \E t \in Callers, text \in Texts : OverlapStart(t, text)
    \/ \E t \in Callers : Dispatch(t)
    \/ \E t \in Callers, reply \in Replies : Succeed(t, reply)
    \/ \E t \in Callers, err \in Errors : Fail(t, err)

OverlapSpec == Init /\ [][NextOverlap]_vars

NextContexts ==
    \/ \E i \in Instances : ContextCreate(i)
    \/ \E i \in Instances, text \in Texts : ContextSend(i, text)
    \/ \E i \in Instances, reply \in Replies : ContextSucceed(i, reply)
    \/ \E i \in Instances, err \in Errors : ContextFail(i, err)

\* several invocations of create_conversation_context, each with its own list
ContextSpec == Init /\ [][NextContexts]_vars

NextGuide ==
    \/ GuideStart
    \/ GuideCallReturns
    \/ GuideCallRaises
    \/ GuideExampleReturns

\* OpenAISDKGuide.run_all_examples
GuideSpec == Init /\ [][NextGuide]_vars

NextQuick ==
    \/ QuickStart
    \/ QuickCallReturns
    \/ \E chunks \in ChunkSeqs : QuickStreamOpens(chunks)
    \/ QuickStreamIterate
    \/ QuickRaises
    \/ QuickExampleReturns

\* quick_start_examples.run_all_examples
QuickSpec == Init /\ [][NextQuick]_vars

NextStream ==
    \/ \E chunks \in ChunkSeqs : StreamCreate(chunks)
    \/ StreamCreateFails
    \/ StreamIterate
    \/ StreamEnd
    \/ \E ex \in {"open", "closed"} : StreamInterrupt(ex)

\* streaming_example: one run of the function
StreamSpec == Init /\ [][NextStream]_vars

(* ------------------------- derived quantities -------------------------- *)
Succeeded == {i \in DOMAIN log : log[i].remote = "ok"}

FailedRemote == {i \in DOMAIN log : log[i].remote = "error"}

\* every call that has been entered: its id, argument and the list it found
CallRecords ==
    {[id |-> calls[t].id, user_message |-> calls[t].user_message,
      before |-> calls[t].before] : t \in {u \in Callers : calls[u].pc # "idle"}}
    \cup {[id |-> log[i].id, user_message |-> log[i].user_message,
           before |-> log[i].before] : i \in DOMAIN log}

RECURSIVE ConcatContents(_)
ConcatContents(chunks) ==
    IF chunks = <<>> THEN ""
    ELSE (IF Head(chunks).isNone THEN "" ELSE Head(chunks).content)
         \o ConcatContents(Tail(chunks))

AssistantCount(h) == Cardinality({i \in DOMAIN h : h[i].role = "assistant"})

(* ------------------------------ claims --------------------------------- *)
\* C1: from an empty list, once the calls made so far have ended, the length
\* of conversation_history is 2 x (calls whose create returned) + 1 x (calls
\* whose create raised); each call grew the list by exactly two, or by one.
C1_LengthCount ==
    /\ AllIdle => Len(conversation_history)
                    = 2 * Cardinality(Succeeded) + Cardinality(FailedRemote)
    /\ \A i \in DOMAIN log :
         Len(log[i].after) - Len(log[i].before)
           = IF log[i].remote = "ok" THEN 2 ELSE 1

C1_Witness ==
    AllIdle /\ Cardinality(Succeeded) = 2 /\ Cardinality(FailedRemote) = 1

\* C2: when create raises, the user message of that call stays the last
\* entry, no assistant message is added by the call, and the error reaches
\* the caller of chat_with_context.
C2_FailureKeepsUserTurn ==
    \A i \in FailedRemote :
      /\ log[i].after = Append(log[i].before, UserMessage(log[i].user_message))
      /\ log[i].outcome = "raised"
      /\ log[i].value \in Errors

C2_Witness ==
    \E i \in FailedRemote :
      /\ log[i].before # <<>>
      /\ conversation_history = log[i].after
      /\ conversation_history[Len(conversation_history)].role = "user"

\* C3 (as claimed): a call with the empty text is rejected with InvalidInput
\* before any request is sent and leaves the list as it found it.
C3_EmptyRejected ==
    /\ \A t \in Callers :
         calls[t].pc # "idle" /\ calls[t].user_message = ""
           => /\ conversation_history = calls[t].before
              /\ RequestsOf(calls[t].id) = {}
    /\ \A i \in DOMAIN log :
         log[i].user_message = ""
           => /\ log[i].after = log[i].before
              /\ log[i].outcome = "raised"
              /\ log[i].value = "InvalidInput"
              /\ RequestsOf(log[i].id) = {}

\* C4: the message list of every request is the whole list at dispatch: what
\* the call found on entry, in order, followed by its own user message.
C4_RequestIsWholeTranscript ==
    \A i \in DOMAIN requests :
      \E c \in CallRecords :
        /\ c.id = requests[i].call
        /\ requests[i].messages = Append(c.before, UserMessage(c.user_message))

C4_Witness ==
    \E i \in DOMAIN requests :
      LET m == requests[i].messages IN
        /\ Len(m) = 4
        /\ m[1].role = "user" /\ m[2].role = "user"
        /\ m[3].role = "assistant" /\ m[4].role = "user"

C6_InterruptedClosed ==
    stream.pc = "error" /\ stream.exchange # "none"
      => /\ AssistantCount(stream.messages) = 0
         /\ stream.messages = StreamMessages
         /\ stream.exchange = "closed"

\* C7: a failed call with text X followed by a successful call with text X
\* leaves [user X, user X, assistant reply], and the second request carries
\* both user X turns.
C7_RetryNotDeduplicated ==
    \A x \in Texts, r \in Replies :
      (/\ Len(log) >= 2
       /\ log[1].before = <<>>
       /\ log[1].user_message = x /\ log[1].remote = "error"
       /\ log[2].user_message = x /\ log[2].remote = "ok" /\ log[2].value = r)
      => /\ log[2].after
              = <<UserMessage(x), UserMessage(x), AssistantMessage(r)>>
         /\ \E i \in RequestsOf(log[2].id) :
              requests[i].messages = <<UserMessage(x), UserMessage(x)>>

C7_Witness ==
    /\ Len(log) = 2
    /\ log[1].user_message = "X" /\ log[1].remote = "error"
    /\ log[2].user_message = "X" /\ log[2].remote = "ok"
    /\ conversation_history
         = <<UserMessage("X"), UserMessage("X"), AssistantMessage("r1")>>

\* C8: every step leaves the list it found as a prefix of the list it leaves:
\* no message already appended is changed, removed or moved.
C8_AppendOnly ==
    [][IsPrefix(conversation_history, conversation_history')]_vars

C8_Witness ==
    /\ Len(conversation_history) = 5
    /\ Cardinality(FailedRemote) = 1

\* C9: every assistant message directly follows the user message of its own
\* call, and after successful calls only the list is user, assistant, user,
\* assistant, ... with the k-th pair holding the k-th call's text and reply.
C9_Alternation ==
    /\ \A i \in Succeeded :
         log[i].after
           = log[i].before \o <<UserMessage(log[i].user_message),
                                AssistantMessage(log[i].value)>>
    /\ \A j \in DOMAIN conversation_history :
         conversation_history[j].role = "assistant"
           => j > 1 /\ conversation_history[j - 1].role = "user"
    /\ (AllIdle /\ FailedRemote = {})
         => /\ Len(conversation_history) = 2 * Len(log)
            /\ \A k \in DOMAIN log :
                 /\ conversation_history[2 * k - 1]
                      = UserMessage(log[k].user_message)
                 /\ conversation_history[2 * k] = AssistantMessage(log[k].value)

C9_Witness ==
    /\ AllIdle /\ FailedRemote = {} /\ Len(log) = 3
    /\ log[1].user_message # log[2].user_message
    /\ log[1].value # log[2].value

\* C10: no call sends more than one request, whether create returns or
\* raises, and a finished call with a non-empty text has sent exactly one.
C10_NoSilentRetry ==
    /\ \A id \in 1..ncalls : Cardinality(RequestsOf(id)) <= 1
    /\ \A i \in DOMAIN log :
         log[i].user_message # "" => Cardinality(RequestsOf(log[i].id)) = 1

\* some call was entered while another call had not yet ended
EverOverlapped ==
    \/ \E t \in Callers : calls[t].pc # "idle" /\ calls[t].overlap
    \/ \E i \in DOMAIN log : log[i].overlap

\* the list holds a user turn of a successful call that is not directly
\* followed by the reply of that call
Misordered ==
    \E i \in Succeeded :
      \A j \in 1..(Len(conversation_history) - 1) :
        ~(/\ j = Len(log[i].before) + 1
          /\ conversation_history[j] = UserMessage(log[i].user_message)
          /\ conversation_history[j + 1] = AssistantMessage(log[i].value))

C10_Witness ==
    /\ AllIdle
    /\ \E i \in FailedRemote : log[i].user_message # ""
    /\ \E i \in Succeeded : log[i].user_message # ""

\* C11: with no lock around the two appends, overlapping calls can leave
\* user1, user2, assistant2, assistant1, the first reply answering a request
\* without the second user turn; as long as no call is entered while another
\* is running, every successful call's user turn is directly followed by its
\* own reply and its request held every message then in the list.
C11_SerializedKeepsOrder ==
    ~EverOverlapped
      => /\ ~Misordered
         /\ \A i \in Succeeded :
              \A k \in RequestsOf(log[i].id) :
                requests[k].messages
                  = SubSeq(log[i].after, 1, Len(log[i].after) - 1)

C11_Witness ==
    /\ AllIdle /\ EverOverlapped /\ Misordered
    /\ Len(log) = 2 /\ log[1].id = 2 /\ log[2].id = 1
    /\ conversation_history
         = <<UserMessage("X"), UserMessage("Hi"),
             AssistantMessage("r2"), AssistantMessage("r1")>>
    /\ \E k \in RequestsOf(1) : requests[k].messages = <<UserMessage("X")>>

\* C14: a step of one invocation of create_conversation_context (binding its
\* list, a call that returns, a call that raises) leaves the list of every
\* other invocation as it was.
C14_PerInstanceState ==
    [][\A i \in Instances :
         contexts'[i].pc = contexts[i].pc
           => contexts'[i].history = contexts[i].history]_vars

C14_Witness ==
    /\ contexts[1].pc = "idle" /\ contexts[2].pc = "idle"
    /\ Len(contexts[1].history) = 2
    /\ contexts[1].history[2].role = "assistant"
    /\ Len(contexts[2].history) = 1

\* the methods that call self.client.*
RemoteExamples ==
    {GuideExamples[k] : k \in {j \in DOMAIN GuideExamples :
                                 RemoteCallsOf(GuideExamples[j]) > 0}}

FileOpsReturned ==
    /\ \E k \in DOMAIN guide.invoked :
         guide.invoked[k] = "file_operations_example"
    /\ \/ guide.pc = "completed"
       \/ GuideExamples[guide.idx] # "file_operations_example"

\* C15: whichever calls of self.client.* raise, no exception leaves
\* run_all_examples, the sixteen methods are called in the listed order, the
\* run can always go on, and it ends at the "All examples completed!" line
\* with all sixteen called.
C15_AllExamplesRun ==
    /\ guide.pc # "escaped"
    /\ Len(guide.invoked) = guide.idx
    /\ guide.invoked = SubSeq(GuideExamples, 1, Len(guide.invoked))
    /\ guide.caught \subseteq {guide.invoked[k] : k \in DOMAIN guide.invoked}
    /\ guide.pc = "running" => ENABLED NextGuide
    /\ guide.pc = "completed" => guide.invoked = GuideExamples

C15_Witness ==
    /\ guide.pc = "completed"
    /\ guide.caught = RemoteExamples
    /\ Len(guide.invoked) = 16

\* C16: the first function that raises ends the run: no later function is
\* called, the error lines are printed, the run stops inside
\* run_all_examples, and the success line is printed exactly when every
\* function of the list returned.
C16_FirstRaiseStops ==
    /\ quick.invoked = SubSeq(QuickExamples, 1, Len(quick.invoked))
    /\ quick.raised_at # "none"
         => /\ quick.pc = "stopped"
            /\ quick.error_printed
            /\ quick.invoked[Len(quick.invoked)] = quick.raised_at
            /\ Len(quick.returned) = Len(quick.invoked) - 1
    /\ quick.success_printed
         <=> (quick.raised_at = "none" /\ quick.returned = QuickExamples)
    /\ quick.error_printed <=> quick.raised_at # "none"
    /\ quick.pc \in {"completed", "stopped"}
         => (quick.success_printed <=> ~quick.error_printed)

C16_Witness ==
    /\ quick.pc = "stopped"
    /\ quick.raised_at = "example_7_streaming"
    /\ quick.printed = "ab"
    /\ Len(quick.returned) = 4
    /\ ~quick.success_printed

\* C17: when file_operations_example has returned, sample_file.txt is gone on
\* every path; the uploaded file is deleted only if upload, list and
\* retrieve all returned, and a raise of list or retrieve leaves it uploaded.
C17_FileCleanup ==
    FileOpsReturned
      => /\ guide.local = "absent"
         /\ guide.remote = "deleted" => guide.failed_at = "none"
         /\ guide.failed_at \in {"list", "retrieve"}
              => guide.remote = "uploaded"
         /\ guide.failed_at = "upload" => guide.remote = "none"

C17_Witness ==
    /\ FileOpsReturned
    /\ guide.failed_at = "retrieve"
    /\ guide.remote = "uploaded"
    /\ guide.local = "absent"

====
